---- MODULE Spec2Model ----
(***************************************************************************)
(* Model of the CoAP message engine of net.c: the time-ordered send queue  *)
(* with its retransmission counter, the receive queue filled by coap_read, *)
(* and the coap_dispatch loop with its ACK/RST matching, critical-option   *)
(* screening, error replies and callbacks.                                 *)
(*                                                                         *)
(* Queue nodes live in a heap (the sequence nodes); a pointer is an index  *)
(* into it and NULL is 0.  The queues are the singly linked lists of the   *)
(* source: a head pointer and the next field of each node.  A node that    *)
(* was passed to coap_delete_node keeps its slot, marked "freed", so that  *)
(* a pointer that outlives it is recognisable as dangling.                 *)
(***************************************************************************)
EXTENDS Integers, Sequences, FiniteSets, TLC

(***************************************************************************)
(* Bounds of the model.                                                    *)
(***************************************************************************)
MaxNodes == 3       \* queue nodes allocated in one run
MaxSend == 2        \* Spec: of these, nodes allocated by coap_send_confirmed
MaxRecv == 2        \* Spec: of these, nodes allocated by coap_read
MaxTimer == 1       \* Spec: calls of coap_retransmit by the timer driver
MaxRecvT == 1       \* SpecTimer: nodes allocated by coap_read
MaxTimerT == 5      \* SpecTimer: calls of coap_retransmit by the timer driver
MaxTimerR == 2      \* SpecRead: calls of coap_retransmit by the timer driver
MaxSendL == 2       \* SpecLive: nodes allocated by coap_send_confirmed
MaxSendJ == 2       \* SpecJitter: nodes allocated by coap_send_confirmed
MaxTimerJ == 1      \* SpecJitter: calls of coap_retransmit by the timer driver
MaxTimerD == 3      \* SpecDriver: calls of coap_retransmit by the timer driver

(***************************************************************************)
(* Program constants.                                                      *)
(***************************************************************************)
NULL == 0
COAP_INVALID_TID == 0
COAP_DEFAULT_VERSION == 1
COAP_DEFAULT_RESPONSE_TIMEOUT == 2
COAP_DEFAULT_MAX_RETRANSMIT == 4
COAP_TICKS_PER_SECOND == 1024
COAP_MAX_OPT == 63
\* sizeof(coap_hdr_t): version, type and option count, code, message id
SizeofHdr == 4

COAP_MESSAGE_CON == 0
COAP_MESSAGE_NON == 1
COAP_MESSAGE_ACK == 2
COAP_MESSAGE_RST == 3

COAP_REQUEST_GET == 1
COAP_REQUEST_POST == 2

COAP_OPTION_CONTENT_TYPE == 1
COAP_OPTION_PROXY_URI == 3
COAP_OPTION_URI_HOST == 5
COAP_OPTION_URI_PORT == 7
COAP_OPTION_URI_PATH == 9
COAP_OPTION_TOKEN == 11
COAP_OPTION_URI_QUERY == 15

\* COAP_RESPONSE_CODE(N) == ((N/100) << 5) | (N % 100)
COAP_RESPONSE_CODE(n) == ((n \div 100) * 32) + (n % 100)

\* the handler table of a resource has one slot per method GET..DELETE
HandlerSlots == 4
\* sizeof(resource->handler): HandlerSlots function pointers of 8 bytes
SizeofHandlerTable == 32

(***************************************************************************)
(* Inputs.                                                                 *)
(***************************************************************************)
\* peer addresses, as the bytes coap_transaction_id hashes
Peers == {<<1>>, <<2>>}
\* the peers datagrams arrive from
RecvPeers == {<<1>>}
\* Token option values; <<>> stands for a PDU without a Token option
Tokens == {<<>>, <<7>>}
\* the message id of the PDU header
Mids == {4660}
Mid == CHOOSE m \in Mids : TRUE
\* low bytes of the random number drawn by coap_send_confirmed
RandBytes == {0, 128}
\* request URIs by the resource key they hash to: the well-known key, the
\* key of a registered resource, a key nothing is registered under
UriKeys == {"wkc", "res", "none"}

VARIABLES
  nodes,        \* the heap of queue nodes, indexed by pointer
  sendqueue,    \* context->sendqueue
  recvqueue,    \* context->recvqueue
  resources,    \* context->resources: key -> set of methods with a handler
  now,          \* the clock read by coap_ticks
  dpc,          \* where coap_dispatch is: "idle", "loop" or "crashed"
  sent,         \* the local variable sent of coap_dispatch
  opt_filter,   \* the local variable opt_filter of coap_dispatch
  ev,           \* what the last operation did (its events and its result)
  ntimer,       \* the calls of coap_retransmit so far
  answered      \* history: the requests an empty ACK took off the send queue

vars == <<nodes, sendqueue, recvqueue, resources, now, dpc, sent, opt_filter,
          ev, ntimer, answered>>

(***************************************************************************)
(* Bit arithmetic on naturals.                                             *)
(***************************************************************************)
RECURSIVE Xor(_, _)
Xor(a, b) ==
  IF a = 0 THEN b
  ELSE IF b = 0 THEN a
  ELSE (((a % 2) + (b % 2)) % 2) + 2 * Xor(a \div 2, b \div 2)

RECURSIVE Pow2(_)
Pow2(k) == IF k = 0 THEN 1 ELSE 2 * Pow2(k - 1)

MutShlNoBackoff(x, k) == x

Shl(x, k) == x * Pow2(k)
Shr(x, k) == x \div Pow2(k)

(***************************************************************************)
(* The hash primitive coap_hash over a 4-byte key, and the transaction id. *)
(***************************************************************************)
HashZero == <<0, 0, 0, 0>>

\* one input byte absorbed into the key h (h[1] is h[0] of the source)
HashByte(h, b) ==
  [j \in 1..4 |->
     IF j = 1 THEN (Shl(h[1], 7) + h[1] + b) % 256
     ELSE (Shl(h[j], 7) + Shr(h[j - 1], 1) + h[j]) % 256]

RECURSIVE coap_hash(_, _)
coap_hash(s, h) ==
  IF s = <<>> THEN h ELSE coap_hash(Tail(s), HashByte(h, Head(s)))

\* coap_transaction_id: peer bytes, then the Token value when there is one
coap_transaction_id(peer, pdu) ==
  LET h1 == coap_hash(peer, HashZero)
      h  == IF pdu.token # <<>> THEN coap_hash(pdu.token, h1) ELSE h1
  IN Xor(Shl(h[1], 8) + h[2], Shl(h[3], 8) + h[4])

(***************************************************************************)
(* PDUs.                                                                   *)
(***************************************************************************)
Pdu(type, code, mid, token, uri, opts) ==
  [version |-> COAP_DEFAULT_VERSION, type |-> type, code |-> code, mid |-> mid,
   token |-> token, uri |-> uri, opts |-> opts]

NoPdu == Pdu(0, 0, 0, <<>>, "none", {})

\* the option numbers a PDU carries, as the option iterator yields them
Options(pdu) ==
  pdu.opts \cup (IF pdu.token # <<>> THEN {COAP_OPTION_TOKEN} ELSE {})
           \cup (IF pdu.uri # "none" THEN {COAP_OPTION_URI_PATH} ELSE {})

COAP_MESSAGE_IS_EMPTY(pdu) == pdu.code = 0
COAP_MESSAGE_IS_REQUEST(pdu) == ~COAP_MESSAGE_IS_EMPTY(pdu) /\ pdu.code < 32
COAP_MESSAGE_IS_RESPONSE(pdu) == pdu.code >= 64 /\ pdu.code <= 191

Min(S) == CHOOSE x \in S : \A y \in S : x <= y

\* the elements of a set of numbers in ascending order
RECURSIVE Ascending(_)
Ascending(S) ==
  IF S = {} THEN <<>> ELSE <<Min(S)>> \o Ascending(S \ {Min(S)})

\* the value of option o of a PDU
OptValue(pdu, o) ==
  IF o = COAP_OPTION_TOKEN THEN pdu.token
  ELSE IF o = COAP_OPTION_URI_PATH THEN <<pdu.uri>>
  ELSE <<>>

(***************************************************************************)
(* Queue nodes.                                                            *)
(***************************************************************************)
\* coap_new_node: a zeroed node.  Besides the fields of coap_queue_t a node
\* carries history: origin, tx (transmissions), frees, by, and t0, the
\* clock coap_send_confirmed read when it scheduled the node
ZeroNode(origin) ==
  [st |-> "live", origin |-> origin, t |-> 0, timeout |-> 0,
   retransmit_cnt |-> 0, remote |-> <<>>, id |-> 0, pdu |-> NoPdu,
   next |-> NULL, tx |-> 0, frees |-> 0, by |-> "none", t0 |-> 0]

MutTombstoneLeak(n, by) == n

\* what is left of a node after coap_delete_node: the history fields only
Tombstone(n, by) ==
  [st |-> "freed", origin |-> n.origin, t |-> 0, timeout |-> 0,
   retransmit_cnt |-> 0, remote |-> <<>>, id |-> 0, pdu |-> NoPdu,
   next |-> NULL, tx |-> IF by = "retransmit" THEN n.tx ELSE 0,
   frees |-> n.frees + 1, by |-> IF n.st = "live" THEN by ELSE n.by,
   t0 |-> 0]

Ptrs(ns) == 1..Len(ns)

\* the nodes reached from head along next, in order; a walk is cut after
\* one step more than the heap has nodes, so a cyclic list shows as a
\* sequence with a repeated node
RECURSIVE Walk(_, _, _)
Walk(ns, p, fuel) ==
  IF p = NULL \/ fuel = 0 THEN <<>>
  ELSE <<p>> \o Walk(ns, ns[p].next, fuel - 1)

Queue(ns, head) == Walk(ns, head, Len(ns) + 1)

InSeq(x, s) == \E i \in 1..Len(s) : s[i] = x

(***************************************************************************)
(* coap_insert_node with _order_timestamp.                                 *)
(***************************************************************************)
MutOrderLessEq(lhs, rhs) == IF lhs.t <= rhs.t THEN -1 ELSE 1

_order_timestamp(lhs, rhs) == IF lhs.t < rhs.t THEN -1 ELSE 1

\* the do-while loop: the node p after which the new node goes
RECURSIVE InsertSearch(_, _, _, _)
InsertSearch(ns, n, p, fuel) ==
  LET q == ns[p].next IN
  IF fuel = 0 THEN NULL
  ELSE IF q # NULL /\ _order_timestamp(ns[n], ns[q]) >= 0
       THEN InsertSearch(ns, n, q, fuel - 1)
       ELSE p

MutInsertAtHead(ns, head, n) ==
  [nodes |-> [ns EXCEPT ![n].next = head], head |-> n, hang |-> FALSE]

MutInsertNothing(ns, head, n) == [nodes |-> ns, head |-> head, hang |-> FALSE]

\* returns the heap and the queue head after the insertion; hang is TRUE
\* when the search loop never leaves a cyclic list
coap_insert_node(ns, head, n) ==
  IF head = NULL THEN [nodes |-> ns, head |-> n, hang |-> FALSE]
  ELSE IF _order_timestamp(ns[n], ns[head]) < 0
  THEN [nodes |-> [ns EXCEPT ![n].next = head], head |-> n, hang |-> FALSE]
  ELSE LET p == InsertSearch(ns, n, head, Len(ns) + 1) IN
       IF p = NULL THEN [nodes |-> ns, head |-> head, hang |-> TRUE]
       ELSE LET ns1 == [ns EXCEPT ![n].next = ns[p].next]
            IN [nodes |-> [ns1 EXCEPT ![p].next = n], head |-> head,
                hang |-> FALSE]

(***************************************************************************)
(* coap_send_impl: the id it returns.  sendok is the outcome of sendto.    *)
(***************************************************************************)
coap_send_impl(dst, pdu, sendok) ==
  IF sendok THEN coap_transaction_id(dst, pdu) ELSE COAP_INVALID_TID

\* a transmission of a PDU, as an event: of is the queue node that owns the
\* PDU (NULL for a reply the engine built), sq the send queue at that moment
TxEvent(of, dst, pdu, sendok, sq) ==
  [k |-> "tx", of |-> of, dst |-> dst, pdu |-> pdu, ok |-> sendok, sq |-> sq]

(***************************************************************************)
(* coap_send_confirmed.                                                    *)
(***************************************************************************)
MutTimeoutFullJitter(r) ==
  COAP_DEFAULT_RESPONSE_TIMEOUT * COAP_TICKS_PER_SECOND
  + COAP_DEFAULT_RESPONSE_TIMEOUT * Shr(COAP_TICKS_PER_SECOND * (r % 256), 8)

\* node->timeout for the random number r that prng has drawn
InitialTimeout(r) ==
  COAP_DEFAULT_RESPONSE_TIMEOUT * COAP_TICKS_PER_SECOND
  + Shr(COAP_DEFAULT_RESPONSE_TIMEOUT, 1)
    * Shr(COAP_TICKS_PER_SECOND * (r % 256), 8)

Idle == dpc = "idle"

\* the nodes allocated so far by coap_send_confirmed ("send") or coap_read
Allocated(origin) == Cardinality({p \in Ptrs(nodes) : nodes[p].origin = origin})

\* the node could not be allocated
SendConfirmedNoMem ==
  /\ Idle
  /\ ev' = [op |-> "send_confirmed", node |-> NULL, ret |-> COAP_INVALID_TID,
            log |-> <<>>]
  /\ UNCHANGED <<nodes, sendqueue, recvqueue, resources, now, dpc, sent,
                 opt_filter, ntimer, answered>>

SendConfirmed(dst, r, sendok) ==
  /\ Idle
  /\ LET pdu  == Pdu(COAP_MESSAGE_CON, COAP_REQUEST_GET, Mid, <<7>>, "res", {})
         n    == Len(nodes) + 1
         tmo  == InitialTimeout(r)
         node == [ZeroNode("send") EXCEPT !.timeout = tmo, !.t = now + tmo,
                                          !.remote = dst, !.pdu = pdu,
                                          !.t0 = now]
         ins  == coap_insert_node(Append(nodes, node), sendqueue, n)
         id   == coap_send_impl(dst, pdu, sendok)
     IN /\ ~ins.hang
        /\ nodes' = [ins.nodes EXCEPT ![n].id = id, ![n].tx = 1]
        /\ sendqueue' = ins.head
        /\ ev' = [op |-> "send_confirmed", node |-> n, ret |-> id,
                  log |-> <<TxEvent(n, dst, pdu, sendok,
                                    Queue(ins.nodes, ins.head))>>,
                  r |-> r]
  /\ UNCHANGED <<recvqueue, resources, now, dpc, sent, opt_filter, ntimer, answered>>

(***************************************************************************)
(* coap_pop_next followed by coap_retransmit, as the timer driver calls    *)
(* them once the deadline of the head of the send queue has passed.        *)
(***************************************************************************)
\* coap_pop_next: the heap, the new head and the detached node
coap_pop_next(ns, head) ==
  IF head = NULL THEN [nodes |-> ns, head |-> head, node |-> NULL]
  ELSE [nodes |-> [ns EXCEPT ![head].next = NULL], head |-> ns[head].next,
        node |-> head]

MutRetransmitLimit == COAP_DEFAULT_MAX_RETRANSMIT + 1

RetransmitLimit == COAP_DEFAULT_MAX_RETRANSMIT

\* coap_retransmit on the node n; head is the send queue.  Returns the heap,
\* the queue head, the value returned and the events; hang is TRUE when the
\* search loop of coap_insert_node never ends
coap_retransmit(ns, head, n, sendok) ==
  LET old == ns[n] IN
  IF old.retransmit_cnt < RetransmitLimit
  THEN LET cnt == old.retransmit_cnt + 1
           ns1 == [ns EXCEPT ![n].retransmit_cnt = cnt,
                             ![n].t = old.t + Shl(old.timeout, cnt)]
           ins == coap_insert_node(ns1, head, n)
           id  == coap_send_impl(old.remote, old.pdu, sendok)
       IN [nodes |-> [ins.nodes EXCEPT ![n].id = id, ![n].tx = old.tx + 1],
           head |-> ins.head, hang |-> ins.hang, ret |-> id,
           log |-> <<TxEvent(n, old.remote, old.pdu, sendok,
                             Queue(ins.nodes, ins.head))>>]
  ELSE [nodes |-> [ns EXCEPT ![n] = Tombstone(old, "retransmit")],
        head |-> head, hang |-> FALSE, ret |-> COAP_INVALID_TID,
        log |-> <<>>]

Retransmit(sendok) ==
  /\ Idle
  /\ sendqueue # NULL
  /\ ntimer' = ntimer + 1
  /\ LET pop == coap_pop_next(nodes, sendqueue)
         n   == pop.node
         rt  == coap_retransmit(pop.nodes, pop.head, n, sendok)
     IN /\ now' = IF now < nodes[n].t THEN nodes[n].t ELSE now
        /\ ~rt.hang
        /\ nodes' = rt.nodes
        /\ sendqueue' = rt.head
        /\ ev' = [op |-> "retransmit", node |-> n, ret |-> rt.ret,
                  log |-> rt.log]
  /\ UNCHANGED <<recvqueue, resources, dpc, sent, opt_filter, answered>>

\* coap_retransmit on the node coap_peek_next returns: the head of the send
\* queue, which stays on the queue while coap_retransmit works on it
RetransmitPeeked(sendok) ==
  /\ Idle
  /\ sendqueue # NULL
  /\ ntimer' = ntimer + 1
  /\ LET n  == sendqueue
         rt == coap_retransmit(nodes, sendqueue, n, sendok)
     IN /\ now' = IF now < nodes[n].t THEN nodes[n].t ELSE now
        /\ ~rt.hang
        /\ nodes' = rt.nodes
        /\ sendqueue' = rt.head
        /\ ev' = [op |-> "retransmit_peeked", node |-> n, ret |-> rt.ret,
                  log |-> rt.log]
  /\ UNCHANGED <<recvqueue, resources, dpc, sent, opt_filter, answered>>

(***************************************************************************)
(* coap_read.  A datagram is rejected when recvfrom fails, when it is      *)
(* shorter than the header, when its version is not 1, or when the node or *)
(* the PDU cannot be allocated.                                            *)
(***************************************************************************)
\* a datagram as recvfrom delivers it: the number of bytes read (negative
\* when recvfrom fails), the source address and the bytes, as the PDU they
\* encode.  An option takes one byte and the bytes of its value.
RECURSIVE OptionBytes(_, _)
OptionBytes(pdu, os) ==
  IF os = <<>> THEN 0
  ELSE 1 + Len(OptValue(pdu, Head(os))) + OptionBytes(pdu, Tail(os))

DatagramLen(pdu) == SizeofHdr + OptionBytes(pdu, Ascending(Options(pdu)))

Datagram(src, pdu) == [len |-> DatagramLen(pdu), src |-> src, pdu |-> pdu]

\* which allocation of coap_read fails: none, coap_new_node or coap_pdu_init
ReadAllocs == {"ok", "node", "pdu"}

MutReadOutcomeNoVersion(dg, mem) ==
  IF dg.len < 0 THEN "recvfrom"
  ELSE IF dg.len < SizeofHdr THEN "short"
  ELSE IF mem = "node" THEN "nomem_node"
  ELSE IF mem = "pdu" THEN "nomem_pdu"
  ELSE "ok"

\* the checks of coap_read in their order: the first that fails
ReadOutcome(dg, mem) ==
  IF dg.len < 0 THEN "recvfrom"
  ELSE IF dg.len < SizeofHdr THEN "short"
  ELSE IF dg.pdu.version # COAP_DEFAULT_VERSION THEN "version"
  ELSE IF mem = "node" THEN "nomem_node"
  ELSE IF mem = "pdu" THEN "nomem_pdu"
  ELSE "ok"

ReadReject(dg, mem) ==
  /\ Idle
  /\ ReadOutcome(dg, mem) # "ok"
  /\ ev' = [op |-> "read", node |-> NULL, ret |-> -1, log |-> <<>>,
            dg |-> dg, mem |-> mem]
  /\ UNCHANGED <<nodes, sendqueue, recvqueue, resources, now, dpc, sent,
                 opt_filter, ntimer, answered>>

\* the datagrams of the model: empty ACK and RST, responses, requests with
\* and without unknown options, and a message whose code is in no class
RecvPdus ==
  { Pdu(COAP_MESSAGE_ACK, 0, Mid, tk, "none", {}) : tk \in Tokens }
  \cup { Pdu(COAP_MESSAGE_ACK, COAP_RESPONSE_CODE(205), Mid, tk, "none", {}) :
           tk \in Tokens }
  \cup { Pdu(COAP_MESSAGE_CON, COAP_REQUEST_GET, Mid, <<7>>, u, {}) :
           u \in UriKeys \ {"res"} }
  \cup { Pdu(ty, COAP_REQUEST_GET, Mid, <<7>>, "res", {13}) :
           ty \in {COAP_MESSAGE_CON, COAP_MESSAGE_NON} }
  \cup { Pdu(COAP_MESSAGE_RST, 0, Mid, <<7>>, "none", {}),
         Pdu(COAP_MESSAGE_CON, COAP_RESPONSE_CODE(205), Mid, <<7>>, "none", {}),
         Pdu(COAP_MESSAGE_NON, COAP_RESPONSE_CODE(205), Mid, <<7>>, "none", {}),
         Pdu(COAP_MESSAGE_NON, COAP_REQUEST_GET, Mid, <<7>>, "none", {}),
         Pdu(COAP_MESSAGE_CON, COAP_REQUEST_GET, Mid, <<7>>, "res", {12}),
         Pdu(COAP_MESSAGE_CON, COAP_REQUEST_POST, Mid, <<7>>, "res", {}),
         Pdu(COAP_MESSAGE_CON, COAP_REQUEST_POST, Mid, <<>>, "none", {}),
         Pdu(COAP_MESSAGE_CON, 5, Mid, <<7>>, "res", {}),
         Pdu(COAP_MESSAGE_NON, 32, Mid, <<7>>, "none", {}) }

\* what coap_read rejects: a failed recvfrom, datagrams shorter than the
\* header, and datagrams of the PDUs in pdus with another version number
BadDatagrams(src, pdus) ==
  {[len |-> -1, src |-> <<>>, pdu |-> NoPdu]}
  \cup {[len |-> l, src |-> src, pdu |-> NoPdu] : l \in {0, SizeofHdr - 1}}
  \cup {Datagram(src, [pdu EXCEPT !.version = v]) : pdu \in pdus, v \in {0, 2}}

Read(src, pdu) ==
  /\ Idle
  /\ LET n    == Len(nodes) + 1
         node == [ZeroNode("recv") EXCEPT !.t = now, !.remote = src,
                    !.pdu = pdu, !.id = coap_transaction_id(src, pdu)]
         ins  == coap_insert_node(Append(nodes, node), recvqueue, n)
     IN /\ ~ins.hang
        /\ nodes' = ins.nodes
        /\ recvqueue' = ins.head
        /\ ev' = [op |-> "read", node |-> n, ret |-> 0, log |-> <<>>,
                  dg |-> Datagram(src, pdu), mem |-> "ok"]
  /\ UNCHANGED <<sendqueue, resources, now, dpc, sent, opt_filter, ntimer, answered>>

\* coap_read on the datagram dg
coap_read(dg, mem) ==
  \/ ReadReject(dg, mem)
  \/ ReadOutcome(dg, mem) = "ok" /\ Read(dg.src, dg.pdu)

(***************************************************************************)
(* coap_remove_from_queue.  The node is written to *node only when one is  *)
(* found; otherwise the caller's variable keeps its old value.             *)
(***************************************************************************)
RECURSIVE RemoveSearch(_, _, _, _)
RemoveSearch(ns, id, p, fuel) ==
  LET q == ns[p].next IN
  IF fuel = 0 THEN [p |-> NULL, q |-> NULL]
  ELSE IF q # NULL /\ id # ns[q].id THEN RemoveSearch(ns, id, q, fuel - 1)
  ELSE [p |-> p, q |-> q]

MutRemoveHeadOnly(ns, head, id) ==
  IF head # NULL /\ id = ns[head].id
  THEN [nodes |-> [ns EXCEPT ![head].next = NULL], head |-> ns[head].next,
        node |-> head, found |-> TRUE]
  ELSE [nodes |-> ns, head |-> head, node |-> NULL, found |-> FALSE]

coap_remove_from_queue(ns, head, id) ==
  IF head = NULL
  THEN [nodes |-> ns, head |-> head, node |-> NULL, found |-> FALSE]
  ELSE IF id = ns[head].id
  THEN [nodes |-> [ns EXCEPT ![head].next = NULL], head |-> ns[head].next,
        node |-> head, found |-> TRUE]
  ELSE LET r == RemoveSearch(ns, id, head, Len(ns) + 1) IN
       IF r.q # NULL
       THEN [nodes |-> [[ns EXCEPT ![r.p].next = ns[r.q].next]
                           EXCEPT ![r.q].next = NULL],
             head |-> head, node |-> r.q, found |-> TRUE]
       ELSE [nodes |-> ns, head |-> head, node |-> NULL, found |-> FALSE]

(***************************************************************************)
(* Option filters and coap_option_check_critical.                          *)
(***************************************************************************)
\* the options coap_new_context registers
KnownOptions ==
  {COAP_OPTION_CONTENT_TYPE, COAP_OPTION_PROXY_URI, COAP_OPTION_URI_HOST,
   COAP_OPTION_URI_PORT, COAP_OPTION_URI_PATH, COAP_OPTION_TOKEN,
   COAP_OPTION_URI_QUERY}

\* the walk over the options: ok is cleared by an unknown critical option,
\* which is recorded in unknown unless its number is beyond the filter, and
\* then the walk stops
RECURSIVE CheckCriticalWalk(_, _, _)
CheckCriticalWalk(os, ok, unknown) ==
  IF os = <<>> THEN [ok |-> ok, unknown |-> unknown]
  ELSE LET o == Head(os) IN
       IF o % 2 = 1 /\ o \notin KnownOptions
       THEN IF o > COAP_MAX_OPT
            THEN [ok |-> FALSE, unknown |-> unknown]
            ELSE CheckCriticalWalk(Tail(os), FALSE, unknown \cup {o})
       ELSE CheckCriticalWalk(Tail(os), ok, unknown)

coap_option_check_critical(pdu, unknown) ==
  CheckCriticalWalk(Ascending(Options(pdu)), TRUE, unknown)

(***************************************************************************)
(* The replies the engine builds.  opts is the list of options in the      *)
(* order coap_add_option was called, each <<number, value>>.               *)
(***************************************************************************)
COAP_MEDIATYPE_TEXT_PLAIN == 0
COAP_MEDIATYPE_APPLICATION_LINK_FORMAT == 40

\* coap_check_option(pdu, COAP_OPTION_TOKEN) on a list of options
TokenIn(opts) ==
  IF \E i \in 1..Len(opts) : opts[i][1] = COAP_OPTION_TOKEN
  THEN opts[CHOOSE i \in 1..Len(opts) : opts[i][1] = COAP_OPTION_TOKEN][2]
  ELSE <<>>

Reply(type, code, mid, opts, payload) ==
  [type |-> type, code |-> code, mid |-> mid, opts |-> opts,
   token |-> TokenIn(opts), payload |-> payload]

NoReply == Reply(0, 0, 0, <<>>, "null")

MutSelectedAll(request, filter) ==
  LET os == Ascending(Options(request))
  IN [i \in 1..Len(os) |-> <<os[i], OptValue(request, os[i])>>]

\* the options of request selected by filter, in the order of the iterator
Selected(request, filter) ==
  LET os == Ascending(Options(request) \cap filter)
  IN [i \in 1..Len(os) |-> <<os[i], OptValue(request, os[i])>>]

MutErrorResponseNoToken(request, code, opts, allocok) ==
  [null |-> ~allocok, filter |-> opts,
   pdu |-> IF allocok
           THEN Reply(COAP_MESSAGE_ACK, code, request.mid,
                      <<<<COAP_OPTION_CONTENT_TYPE, <<COAP_MEDIATYPE_TEXT_PLAIN>>>>>>,
                      "phrase")
           ELSE NoReply]

MutErrorResponseAlwaysAck(request, code, opts, allocok) ==
  LET filter == (opts \ {COAP_OPTION_CONTENT_TYPE}) \cup {COAP_OPTION_TOKEN}
  IN [null |-> ~allocok, filter |-> filter,
      pdu |-> IF allocok
              THEN Reply(COAP_MESSAGE_ACK, code, request.mid,
                         <<<<COAP_OPTION_CONTENT_TYPE,
                             <<COAP_MEDIATYPE_TEXT_PLAIN>>>>>>
                         \o Selected(request, filter),
                         "phrase")
              ELSE NoReply]

\* coap_new_error_response: the reply (null when coap_pdu_init fails) and
\* the filter, which the function changes in place
coap_new_error_response(request, code, opts, allocok) ==
  LET type   == IF request.type = COAP_MESSAGE_CON
                THEN COAP_MESSAGE_ACK ELSE COAP_MESSAGE_NON
      filter == (opts \ {COAP_OPTION_CONTENT_TYPE}) \cup {COAP_OPTION_TOKEN}
  IN [null |-> ~allocok, filter |-> filter,
      pdu |-> IF allocok
              THEN Reply(type, code, request.mid,
                         <<<<COAP_OPTION_CONTENT_TYPE,
                             <<COAP_MEDIATYPE_TEXT_PLAIN>>>>>>
                         \o Selected(request, filter),
                         "phrase")
              ELSE NoReply]

\* wellknown_response: null when coap_pdu_init or print_wellknown fails
wellknown_response(request, allocok) ==
  [null |-> ~allocok,
   pdu |-> IF allocok
           THEN Reply(COAP_MESSAGE_ACK, COAP_RESPONSE_CODE(205), request.mid,
                      <<<<COAP_OPTION_CONTENT_TYPE,
                          <<COAP_MEDIATYPE_APPLICATION_LINK_FORMAT>>>>>>
                      \o (IF request.token # <<>>
                          THEN <<<<COAP_OPTION_TOKEN, request.token>>>>
                          ELSE <<>>),
                      "wkc")
           ELSE NoReply]

(***************************************************************************)
(* One iteration of the loop of coap_dispatch works on a record d of the   *)
(* heap, the send queue head, the local variables sent and opt_filter, the *)
(* events so far, and whether the process has been aborted.  ch holds the  *)
(* outcomes the environment decides: sendok (sendto), allocok              *)
(* (coap_pdu_init, print_wellknown), ub (what freeing a freed block does:  *)
(* "benign" or "crash"), uaf (what a read of a freed node yields: "stale"  *)
(* or "garbage") and oob (what a read past the handler table yields:       *)
(* "null" or "garbage").                                                   *)
(***************************************************************************)
Choices ==
  [sendok : BOOLEAN, allocok : BOOLEAN, ub : {"benign", "crash"},
   uaf : {"stale", "garbage"}, oob : {"null", "garbage"}]

FreeEvent(again) == [k |-> "pdu_free", again |-> again]

\* a warn() of the dispatcher
WarnEvent(what) == [k |-> "warn", what |-> what]

\* coap_send: one transmission, and the PDU is released whatever sendto says
coap_send(d, dst, reply, ch) ==
  [d EXCEPT !.log = @ \o <<TxEvent(NULL, dst, reply, ch.sendok,
                                   Queue(d.nodes, d.sq)),
                           FreeEvent(FALSE)>>]

\* coap_delete_pdu of a PDU coap_send has released already
DeleteReleasedPdu(d, ch) ==
  [d EXCEPT !.log = @ \o <<FreeEvent(TRUE)>>,
            !.crashed = (ch.ub = "crash")]

\* if (!response || coap_send(...) == COAP_INVALID_TID) coap_delete_pdu(response)
SendOrDelete(d, dst, r, ch) ==
  IF r.null THEN d
  ELSE LET d1 == coap_send(d, dst, r.pdu, ch) IN
       IF coap_send_impl(dst, r.pdu, ch.sendok) = COAP_INVALID_TID
       THEN DeleteReleasedPdu(d1, ch)
       ELSE d1

\* coap_delete_node: a second call on the same node frees freed memory
coap_delete_node(d, p, ch) ==
  IF d.crashed \/ p = NULL THEN d
  ELSE IF d.nodes[p].st = "live"
  THEN [d EXCEPT !.nodes[p] = Tombstone(@, "dispatch")]
  ELSE [d EXCEPT !.nodes[p] = Tombstone(@, "dispatch"),
                 !.crashed = (ch.ub = "crash")]

\* coap_send_ack: an empty ACK with the message id of the request
coap_send_ack(d, dst, request, ch) ==
  coap_send(d, dst, Reply(COAP_MESSAGE_ACK, 0, request.mid, <<>>, "none"), ch)

\* the request argument of the response callback: sent ? sent->pdu : NULL
PduRef(p) == <<"pdu", p>>

RequestArg(d, ch) ==
  IF d.sent = NULL THEN <<"null", NULL>>
  ELSE IF d.nodes[d.sent].st = "live" THEN PduRef(d.sent)
  ELSE IF ch.uaf = "stale" THEN PduRef(d.sent)
  ELSE <<"garbage", NULL>>

handle_response(d, rcvd, ch) ==
  LET node == d.nodes[rcvd]
      d1   == IF node.pdu.type = COAP_MESSAGE_CON
              THEN coap_send_ack(d, node.remote, node.pdu, ch) ELSE d
  IN [d1 EXCEPT !.log = @ \o
        <<[k |-> "cb", req |-> RequestArg(d1, ch), sent |-> d1.sent,
           live |-> (d1.sent # NULL /\ d1.nodes[d1.sent].st = "live"),
           reqpdu |-> IF d1.sent # NULL THEN d1.nodes[d1.sent].pdu ELSE NoPdu,
           rcvd |-> rcvd, pdu |-> node.pdu, remote |-> node.remote,
           tid |-> node.id,
           sq |-> Queue(d1.nodes, d1.sq)]>>]

(***************************************************************************)
(* handle_request.  reg is the resource registry: key -> the method codes  *)
(* that have a handler.                                                    *)
(***************************************************************************)
is_wkc(key) == key = "wkc"

HandlerEvent(key, code, rcvd) ==
  [k |-> "handler", key |-> key, code |-> code, rcvd |-> rcvd]

handle_request(d, reg, rcvd, ch) ==
  LET node == d.nodes[rcvd]
      pdu  == node.pdu
      key  == pdu.uri
      flt  == {COAP_OPTION_TOKEN}
      e404 == coap_new_error_response(pdu, COAP_RESPONSE_CODE(404), flt,
                                      ch.allocok)
      e405 == coap_new_error_response(pdu, COAP_RESPONSE_CODE(405), flt,
                                      ch.allocok)
      wkc  == wellknown_response(pdu, ch.allocok)
  IN
  IF key \notin DOMAIN reg
  THEN LET response ==
             IF pdu.code = COAP_REQUEST_GET
             THEN IF is_wkc(key) THEN wkc ELSE e404
             ELSE e405
       IN SendOrDelete(d, node.remote, response, ch)
  ELSE LET inTable == pdu.code < SizeofHandlerTable
           slot    == pdu.code - 1
           h == IF ~inTable THEN "null"
                ELSE IF slot < HandlerSlots
                THEN IF pdu.code \in reg[key] THEN "handler" ELSE "null"
                ELSE ch.oob
       IN IF h = "handler"
          THEN [d EXCEPT !.log = @ \o <<HandlerEvent(key, pdu.code, rcvd)>>]
          ELSE IF h = "garbage"
          THEN [d EXCEPT !.log = @ \o <<[k |-> "wild_call", key |-> key,
                                         code |-> pdu.code, rcvd |-> rcvd]>>,
                         !.crashed = TRUE]
          ELSE LET response ==
                     IF pdu.code = COAP_REQUEST_GET /\ is_wkc(key)
                     THEN wkc ELSE e405
               IN SendOrDelete(d, node.remote, response, ch)

(***************************************************************************)
(* The switch on the message type, the hand-over to the upper layer and    *)
(* the cleanup of one iteration of coap_dispatch.                          *)
(***************************************************************************)
MutMatchLeavesQueue(d, id) ==
  LET rm == coap_remove_from_queue(d.nodes, d.sq, id)
  IN [d EXCEPT !.sent = IF rm.found THEN rm.node ELSE @]

\* coap_remove_from_queue(&context->sendqueue, rcvd->id, &sent)
MatchSent(d, id) ==
  LET rm == coap_remove_from_queue(d.nodes, d.sq, id)
  IN [d EXCEPT !.nodes = rm.nodes, !.sq = rm.head,
               !.sent = IF rm.found THEN rm.node ELSE @]

DispatchSwitch(d, rcvd, ch) ==
  LET node == d.nodes[rcvd]
      pdu  == node.pdu
      cc   == coap_option_check_critical(pdu, d.filter)
  IN
  IF pdu.version # COAP_DEFAULT_VERSION THEN [d |-> d, goto |-> "cleanup"]
  ELSE IF pdu.type = COAP_MESSAGE_ACK
  THEN [d |-> MatchSent(d, node.id),
        goto |-> IF pdu.code = 0 THEN "cleanup" ELSE "handle"]
  ELSE IF pdu.type = COAP_MESSAGE_RST
  THEN [d |-> MatchSent(d, node.id), goto |-> "handle"]
  ELSE IF pdu.type = COAP_MESSAGE_NON
  THEN [d |-> [d EXCEPT !.filter = cc.unknown],
        goto |-> IF cc.ok THEN "handle" ELSE "cleanup"]
  ELSE IF cc.ok
  THEN [d |-> [d EXCEPT !.filter = cc.unknown], goto |-> "handle"]
  ELSE LET r  == coap_new_error_response(pdu, COAP_RESPONSE_CODE(402),
                                         cc.unknown, ch.allocok)
           d1 == [d EXCEPT !.filter = r.filter]
       IN [d |-> IF r.null
                 THEN [d1 EXCEPT !.log = @ \o <<WarnEvent("cannot create")>>]
                 ELSE SendOrDelete(d1, node.remote, r, ch),
           goto |-> "cleanup"]

DispatchHandle(d, reg, rcvd, ch) ==
  IF d.crashed THEN d
  ELSE IF COAP_MESSAGE_IS_REQUEST(d.nodes[rcvd].pdu)
  THEN handle_request(d, reg, rcvd, ch)
  ELSE IF COAP_MESSAGE_IS_RESPONSE(d.nodes[rcvd].pdu)
  THEN handle_response(d, rcvd, ch)
  ELSE d

MutCleanupKeepsSent(d, rcvd, ch) == coap_delete_node(d, rcvd, ch)

DispatchCleanup(d, rcvd, ch) ==
  coap_delete_node(coap_delete_node(d, d.sent, ch), rcvd, ch)

DispatchBody(d, reg, rcvd, ch) ==
  LET sw == DispatchSwitch(d, rcvd, ch)
      h  == IF sw.goto = "handle" THEN DispatchHandle(sw.d, reg, rcvd, ch)
            ELSE sw.d
  IN DispatchCleanup(h, rcvd, ch)

(***************************************************************************)
(* coap_dispatch: the call, the iterations of its loop, and its return.    *)
(***************************************************************************)
DispatchCall ==
  /\ Idle
  /\ dpc' = "loop"
  /\ sent' = NULL
  /\ opt_filter' = {}
  /\ ev' = [op |-> "dispatch_call", node |-> NULL, ret |-> 0, log |-> <<>>]
  /\ UNCHANGED <<nodes, sendqueue, recvqueue, resources, now, ntimer, answered>>

DispatchIter(ch) ==
  /\ dpc = "loop"
  /\ recvqueue # NULL
  /\ LET rcvd == recvqueue
         ns0  == [nodes EXCEPT ![rcvd].next = NULL]
         d0   == [nodes |-> ns0, sq |-> sendqueue, sent |-> sent,
                  filter |-> opt_filter, log |-> <<>>, crashed |-> FALSE]
         d    == DispatchBody(d0, resources, rcvd, ch)
     IN /\ recvqueue' = nodes[rcvd].next
        /\ nodes' = d.nodes
        /\ sendqueue' = d.sq
        /\ sent' = d.sent
        /\ opt_filter' = d.filter
        /\ dpc' = IF d.crashed THEN "crashed" ELSE "loop"
        /\ ev' = [op |-> "dispatch", node |-> rcvd, ret |-> 0, log |-> d.log,
                  msg |-> nodes[rcvd].pdu]
  /\ answered' =
       LET msg == nodes[recvqueue].pdu
           rm  == coap_remove_from_queue(nodes, sendqueue, nodes[recvqueue].id)
       IN IF msg.type = COAP_MESSAGE_ACK /\ msg.code = 0 /\ rm.found
          THEN answered \cup {[node |-> rm.node, id |-> nodes[rm.node].id]}
          ELSE answered
  /\ UNCHANGED <<resources, now, ntimer>>

DispatchReturn ==
  /\ dpc = "loop"
  /\ recvqueue = NULL
  /\ dpc' = "idle"
  /\ sent' = NULL
  /\ opt_filter' = {}
  /\ ev' = [op |-> "dispatch_return", node |-> NULL, ret |-> 0, log |-> <<>>]
  /\ UNCHANGED <<nodes, sendqueue, recvqueue, resources, now, ntimer, answered>>

\* coap_can_exit, for a context that is not NULL
coap_can_exit == recvqueue = NULL /\ sendqueue = NULL

(***************************************************************************)
(* The specification.                                                      *)
(***************************************************************************)
\* the registry of the model: one resource with a GET handler
DefaultRegistry == [res |-> {COAP_REQUEST_GET}]

Init ==
  /\ nodes = <<>>
  /\ sendqueue = NULL
  /\ recvqueue = NULL
  /\ resources = DefaultRegistry
  /\ now = 0
  /\ dpc = "idle"
  /\ sent = NULL
  /\ opt_filter = {}
  /\ ev = [op |-> "init", node |-> NULL, ret |-> 0, log |-> <<>>]
  /\ ntimer = 0
  /\ answered = {}

\* the choices an iteration consults, for the message at the head of the
\* receive queue: a choice nothing consults is left at its first value.
\* sendok is consulted when something is transmitted, allocok when an error
\* or well-known response is built, ub when a freed block is freed again,
\* uaf when the callback is handed a freed node, and oob when the method
\* code indexes past the handler table
Relevant ==
  LET node    == nodes[recvqueue]
      msg     == node.pdu
      isreq   == COAP_MESSAGE_IS_REQUEST(msg)
      isresp  == COAP_MESSAGE_IS_RESPONSE(msg)
      conf    == msg.type = COAP_MESSAGE_CON
      matches == msg.type \in {COAP_MESSAGE_ACK, COAP_MESSAGE_RST}
      found   == matches
                 /\ coap_remove_from_queue(nodes, sendqueue, node.id).found
      stale   == sent # NULL /\ ~found
      ccok    == coap_option_check_critical(msg, opt_filter).ok
      handled == IF msg.type = COAP_MESSAGE_ACK THEN msg.code # 0
                 ELSE IF msg.type = COAP_MESSAGE_RST THEN TRUE
                 ELSE ccok
      served  == /\ msg.uri \in DOMAIN resources
                 /\ msg.code <= HandlerSlots
                 /\ msg.code \in resources[msg.uri]
      built   == (conf /\ ~ccok) \/ (handled /\ isreq /\ ~served)
      acked   == handled /\ isresp /\ conf
      past    == /\ handled /\ isreq /\ msg.uri \in DOMAIN resources
                 /\ msg.code > HandlerSlots
  IN {ch \in Choices :
        /\ built \/ ch.allocok
        /\ acked \/ (built /\ ch.allocok) \/ ch.sendok
        /\ stale \/ (built /\ ch.allocok /\ ~ch.sendok) \/ ch.ub = "benign"
        /\ (handled /\ isresp /\ stale) \/ ch.uaf = "stale"
        /\ past \/ ch.oob = "null"}

\* the application, the network and the timer driver around one context:
\* coap_dispatch is called when the receive queue holds something
Next ==
  \/ /\ Len(nodes) < MaxNodes
     /\ Allocated("send") < MaxSend
     /\ \E dst \in Peers, ok \in BOOLEAN : SendConfirmed(dst, 128, ok)
  \/ /\ ntimer < MaxTimer
     /\ \E ok \in BOOLEAN : Retransmit(ok)
  \/ /\ Len(nodes) < MaxNodes
     /\ Allocated("recv") < MaxRecv
     /\ \E src \in RecvPeers, pdu \in RecvPdus : Read(src, pdu)
  \/ recvqueue # NULL /\ DispatchCall
  \/ /\ dpc = "loop" /\ recvqueue # NULL
     /\ \E ch \in Relevant : DispatchIter(ch)
  \/ DispatchReturn

Spec == Init /\ [][Next]_vars

\* the send queue under the timer: requests to one peer with every sampled
\* random byte, allocation failures, and only the datagrams that match
\* send-queue nodes, ACK and RST
RecvPdusT == {pdu \in RecvPdus : pdu.type \in {COAP_MESSAGE_ACK, COAP_MESSAGE_RST}
                               /\ pdu.code = 0}

NextTimer ==
  \/ SendConfirmedNoMem
  \/ /\ Len(nodes) < MaxNodes
     /\ \E r \in RandBytes, ok \in BOOLEAN : SendConfirmed(<<1>>, r, ok)
  \/ /\ ntimer < MaxTimerT
     /\ \E ok \in BOOLEAN : Retransmit(ok)
  \/ /\ Len(nodes) < MaxNodes
     /\ Allocated("recv") < MaxRecvT
     /\ \E pdu \in RecvPdusT : Read(<<1>>, pdu)
  \/ recvqueue # NULL /\ DispatchCall
  \/ /\ dpc = "loop" /\ recvqueue # NULL
     /\ \E ch \in Relevant : DispatchIter(ch)
  \/ DispatchReturn

SpecTimer == Init /\ [][NextTimer]_vars

\* the empty ACK without a Token: a datagram of the size of the header
HeaderOnly == Pdu(COAP_MESSAGE_ACK, 0, Mid, <<>>, "none", {})

\* the reader: good and bad datagrams with every allocation outcome,
\* arriving at a context with a request outstanding and a clock that the
\* timer driver advances
RecvPdusR ==
  {HeaderOnly,
   Pdu(COAP_MESSAGE_RST, 0, Mid, <<7>>, "none", {}),
   Pdu(COAP_MESSAGE_CON, COAP_REQUEST_GET, Mid, <<7>>, "wkc", {}),
   Pdu(COAP_MESSAGE_NON, COAP_REQUEST_GET, Mid, <<7>>, "res", {13})}

DatagramsR ==
  {Datagram(src, pdu) : src \in RecvPeers, pdu \in RecvPdusR}
  \cup BadDatagrams(<<1>>, {HeaderOnly})

NextRead ==
  \/ /\ Len(nodes) < MaxNodes
     /\ Allocated("send") < 1
     /\ SendConfirmed(<<1>>, 0, TRUE)
  \/ /\ ntimer < MaxTimerR
     /\ Retransmit(TRUE)
  \/ \E dg \in DatagramsR, mem \in ReadAllocs :
       /\ ReadOutcome(dg, mem) = "ok" => Len(nodes) < MaxNodes
       /\ coap_read(dg, mem)
  \/ recvqueue # NULL /\ DispatchCall
  \/ /\ dpc = "loop" /\ recvqueue # NULL
     /\ \E ch \in Relevant : DispatchIter(ch)
  \/ DispatchReturn

SpecRead == Init /\ [][NextRead]_vars

\* the timer alone: some requests are sent, nothing is received, and the
\* driver calls coap_retransmit on the head of the send queue whenever its
\* deadline has passed, which the clock, moving on, makes happen
TimerStep == \E ok \in BOOLEAN : Retransmit(ok)

NextLive ==
  \/ /\ Len(nodes) < MaxSendL
     /\ \E r \in RandBytes, ok \in BOOLEAN : SendConfirmed(<<1>>, r, ok)
  \/ TimerStep

SpecLive == Init /\ [][NextLive]_vars /\ WF_vars(TimerStep)

\* the timeout of coap_send_confirmed for every low byte of the random
\* number, and for numbers that have higher bits set or are negative, at
\* the initial clock and at a later one
RandInts == 0..255 \cup {-1, 256 + 77}

NextJitter ==
  \/ /\ Len(nodes) < MaxSendJ
     /\ \E r \in RandInts : SendConfirmed(<<1>>, r, TRUE)
  \/ /\ ntimer < MaxTimerJ
     /\ Retransmit(TRUE)

SpecJitter == Init /\ [][NextJitter]_vars

\* the list head points to is a proper list of allocated nodes: no node is
\* reached twice and none has been freed
IntactList(head) ==
  LET q == Queue(nodes, head)
  IN /\ \A i \in 1..Len(q) : nodes[q[i]].st = "live"
     /\ \A i, j \in 1..Len(q) : q[i] = q[j] => i = j

\* both queues are proper lists
Intact == IntactList(sendqueue) /\ IntactList(recvqueue)

\* a timer driver that hands coap_retransmit the head of the send queue
\* either detached by coap_pop_next or as coap_peek_next returns it, still
\* on the queue.  The run is followed up to the first state in which a
\* queue is no longer a proper list: from there on the walks of
\* coap_insert_node and coap_remove_from_queue read freed nodes or do not
\* end
NextDriver ==
  \/ /\ Intact
     /\ Len(nodes) < MaxNodes
     /\ \E r \in RandBytes, ok \in BOOLEAN : SendConfirmed(<<1>>, r, ok)
  \/ /\ Intact
     /\ ntimer < MaxTimerD
     /\ \E ok \in BOOLEAN : Retransmit(ok)
  \/ /\ Intact
     /\ ntimer < MaxTimerD
     /\ \E ok \in BOOLEAN : RetransmitPeeked(ok)
  \/ /\ Intact
     /\ Len(nodes) < MaxNodes
     /\ Allocated("recv") < MaxRecvT
     /\ \E pdu \in RecvPdusT : Read(<<1>>, pdu)
  \/ Intact /\ recvqueue # NULL /\ DispatchCall
  \/ /\ Intact
     /\ dpc = "loop" /\ recvqueue # NULL
     /\ \E ch \in Relevant : DispatchIter(ch)
  \/ Intact /\ DispatchReturn

SpecDriver == Init /\ [][NextDriver]_vars

\* coap_new_error_response as a function of its arguments, applied once to
\* each of them: requests of every type, with and without a Token, a
\* Uri-Path, a Content-Type and an unknown critical option, and every
\* filter over these options
ErrRequests ==
  {Pdu(ty, COAP_REQUEST_GET, mid, tk, u, os) :
     ty \in COAP_MESSAGE_CON..COAP_MESSAGE_RST, mid \in {Mid, Mid + 1},
     tk \in Tokens, u \in {"none", "res"},
     os \in SUBSET {COAP_OPTION_CONTENT_TYPE, 13}}

ErrCodes ==
  {COAP_RESPONSE_CODE(402), COAP_RESPONSE_CODE(404), COAP_RESPONSE_CODE(405)}

ErrFilters == SUBSET {COAP_OPTION_CONTENT_TYPE, COAP_OPTION_URI_PATH, 13}

NewErrorResponse(request, code, opts, allocok) ==
  /\ Idle
  /\ ev.op = "init"
  /\ LET r == coap_new_error_response(request, code, opts, allocok)
     IN ev' = [op |-> "new_error_response", node |-> NULL, ret |-> 0,
               log |-> <<>>, request |-> request, code |-> code,
               opts |-> opts, null |-> r.null, reply |-> r.pdu,
               filter |-> r.filter]
  /\ UNCHANGED <<nodes, sendqueue, recvqueue, resources, now, dpc, sent,
                 opt_filter, ntimer, answered>>

NextError ==
  \E request \in ErrRequests, code \in ErrCodes, opts \in ErrFilters,
     allocok \in BOOLEAN : NewErrorResponse(request, code, opts, allocok)

SpecError == Init /\ [][NextError]_vars

(***************************************************************************)
(* Properties.  Each is stated over the state and the record ev of the     *)
(* last operation: its name, the node it worked on, what it returned and   *)
(* the events (transmissions, releases, callbacks, handler calls) it       *)
(* caused, in order.                                                       *)
(***************************************************************************)
SendNodes == {p \in Ptrs(nodes) : nodes[p].origin = "send"}

OnQueue(p, head) == InSeq(p, Queue(nodes, head))

\* C1: a call of coap_retransmit on the detached head of the send queue,
\* while the node's retransmit_cnt is below COAP_DEFAULT_MAX_RETRANSMIT,
\* increments the counter by one, puts the node back on the send queue and
\* transmits its PDU once more; the call after that destroys the node with
\* its PDU, returns COAP_INVALID_TID and leaves it off the queue.  Always
\* retransmit_cnt <= COAP_DEFAULT_MAX_RETRANSMIT, a live node has been
\* transmitted 1 + retransmit_cnt times, and a node the timer gave up on
\* has been transmitted exactly 1 + COAP_DEFAULT_MAX_RETRANSMIT times.
C1_RetransmitBudget ==
  /\ [](\A p \in SendNodes :
          /\ nodes[p].retransmit_cnt <= COAP_DEFAULT_MAX_RETRANSMIT
          /\ nodes[p].st = "live" => nodes[p].tx = 1 + nodes[p].retransmit_cnt
          /\ nodes[p].by = "retransmit" =>
               /\ nodes[p].tx = 1 + COAP_DEFAULT_MAX_RETRANSMIT
               /\ nodes[p].frees = 1)
  /\ [][ntimer' = ntimer + 1 =>
          LET n == sendqueue IN
          IF nodes[n].retransmit_cnt < COAP_DEFAULT_MAX_RETRANSMIT
          THEN /\ nodes'[n].retransmit_cnt = nodes[n].retransmit_cnt + 1
               /\ nodes'[n].st = "live"
               /\ InSeq(n, Queue(nodes', sendqueue'))
               /\ nodes'[n].tx = nodes[n].tx + 1
               /\ Len(ev'.log) = 1
               /\ ev'.log[1].k = "tx"
               /\ ev'.log[1].of = n
               /\ ev'.log[1].pdu = nodes[n].pdu
          ELSE /\ nodes'[n].st = "freed"
               /\ nodes'[n].by = "retransmit"
               /\ ~InSeq(n, Queue(nodes', sendqueue'))
               /\ ev'.ret = COAP_INVALID_TID
               /\ ev'.log = <<>>]_vars

\* a node was given up by the fifth call of coap_retransmit on it
C1_Witness ==
  /\ ev.op = "retransmit"
  /\ ev.ret = COAP_INVALID_TID
  /\ ev.node # NULL
  /\ nodes[ev.node].by = "retransmit"
  /\ nodes[ev.node].tx = 1 + COAP_DEFAULT_MAX_RETRANSMIT

\* C2: the send queue is non-decreasing in t from head to tail, and the
\* node coap_send_confirmed or coap_retransmit has just inserted stands
\* behind every node with the same t: all nodes behind it are strictly later.
C2_SendQueueOrdered ==
  LET q == Queue(nodes, sendqueue) IN
  /\ \A i, j \in 1..Len(q) : i < j => nodes[q[i]].t <= nodes[q[j]].t
  /\ (ev.op \in {"send_confirmed", "retransmit"} /\ ev.node # NULL) =>
       \A i, j \in 1..Len(q) :
         (q[i] = ev.node /\ i < j) => nodes[q[i]].t < nodes[q[j]].t

\* three nodes queued, the one just inserted behind a node of equal t
C2_Witness ==
  LET q == Queue(nodes, sendqueue) IN
  /\ Len(q) = 3
  /\ ev.op = "send_confirmed"
  /\ q[3] = ev.node
  /\ nodes[q[2]].t = nodes[q[3]].t
  /\ nodes[q[1]].t < nodes[q[2]].t

\* one iteration of the loop of coap_dispatch is about to work on the head
\* of the receive queue: every step from such a state is that iteration
Iterates == dpc = "loop" /\ recvqueue # NULL

\* the send-queue node the id of the head of the receive queue matches
FirstMatch == coap_remove_from_queue(nodes, sendqueue, nodes[recvqueue].id)

\* the events of kind k in a log
EventsOf(log, k) == {i \in 1..Len(log) : log[i].k = k}

UpcallsIn(log) ==
  EventsOf(log, "cb") \cup EventsOf(log, "handler") \cup EventsOf(log, "wild_call")

\* C3: when the iteration works on an ACK with a response code whose id is
\* that of a node on the send queue, the response callback is invoked with
\* that node's PDU as the request and the received PDU as the response, and
\* at that moment the node is live and no longer on the send queue.
C3_PiggybackedAck ==
  [][(/\ Iterates
      /\ nodes[recvqueue].pdu.type = COAP_MESSAGE_ACK
      /\ COAP_MESSAGE_IS_RESPONSE(nodes[recvqueue].pdu)
      /\ FirstMatch.found) =>
       \E i \in EventsOf(ev'.log, "cb") :
         LET e == ev'.log[i] IN
         /\ e.req = PduRef(FirstMatch.node)
         /\ e.live
         /\ e.reqpdu = nodes[FirstMatch.node].pdu
         /\ e.pdu = nodes[recvqueue].pdu
         /\ e.rcvd = recvqueue
         /\ ~InSeq(FirstMatch.node, e.sq)]_vars

\* a piggybacked response was handed to the callback with the request of
\* the node it matched
C3_Witness ==
  /\ ev.op = "dispatch"
  /\ ev.msg.type = COAP_MESSAGE_ACK
  /\ COAP_MESSAGE_IS_RESPONSE(ev.msg)
  /\ \E i \in EventsOf(ev.log, "cb") :
       /\ ev.log[i].live
       /\ ev.log[i].req = PduRef(ev.log[i].sent)
       /\ ev.log[i].reqpdu.code = COAP_REQUEST_GET

\* C4: when the iteration works on an empty ACK whose id is that of a node
\* on the send queue, that node is taken off the send queue and destroyed
\* once, and no callback and no handler is invoked; a destroyed node never
\* comes back onto the send queue and is never transmitted again.
C4_EmptyAck ==
  /\ [][(/\ Iterates
         /\ nodes[recvqueue].pdu.type = COAP_MESSAGE_ACK
         /\ nodes[recvqueue].pdu.code = 0
         /\ FirstMatch.found) =>
          /\ nodes'[FirstMatch.node].st = "freed"
          /\ nodes'[FirstMatch.node].frees = 1
          /\ ~InSeq(FirstMatch.node, Queue(nodes', sendqueue'))
          /\ UpcallsIn(ev'.log) = {}]_vars
  /\ [][\A p \in SendNodes :
          nodes[p].st = "freed" =>
            /\ nodes'[p].st = "freed"
            /\ ~InSeq(p, Queue(nodes', sendqueue'))
            /\ \A i \in EventsOf(ev'.log, "tx") : ev'.log[i].of # p]_vars

\* an empty ACK has just matched and destroyed a request
C4_Witness ==
  /\ ev.op = "dispatch"
  /\ ev.msg.type = COAP_MESSAGE_ACK
  /\ ev.msg.code = 0
  /\ ev.log = <<>>
  /\ sent # NULL
  /\ nodes[sent].frees = 1

\* the PDU carries a critical option the context does not know
UnknownCritical(pdu) ==
  \E o \in Options(pdu) : o % 2 = 1 /\ o \notin KnownOptions

C6_NonDropped ==
  [][(/\ Iterates
      /\ nodes[recvqueue].pdu.type = COAP_MESSAGE_NON
      /\ UnknownCritical(nodes[recvqueue].pdu)) =>
       /\ EventsOf(ev'.log, "tx") = {}
       /\ UpcallsIn(ev'.log) = {}
       /\ Queue(nodes', sendqueue') = Queue(nodes, sendqueue)
       /\ nodes'[recvqueue].st = "freed"]_vars

\* C7: no message aborts the drain of the receive queue: coap_dispatch is
\* either not running or in its loop, and when it returns the receive
\* queue is empty.
C7_DrainCompletes ==
  /\ dpc \in {"idle", "loop"}
  /\ ev.op = "dispatch_return" => recvqueue = NULL

\* C8: coap_send_confirmed returns a transaction id other than
\* COAP_INVALID_TID exactly when it has added a node to the send queue, and
\* then the queue has grown by exactly one node.
C8_TidIffEnqueued ==
  [][ev'.op = "send_confirmed" =>
       LET before == Len(Queue(nodes, sendqueue))
           after  == Len(Queue(nodes', sendqueue'))
       IN /\ (ev'.ret # COAP_INVALID_TID) <=> (after > before)
          /\ (after > before) => (after = before + 1)]_vars

\* C9: every node on the send queue and every node on the receive queue
\* has the id coap_transaction_id computes from its remote and its PDU.
C9_QueuedIds ==
  \A p \in Ptrs(nodes) :
    (OnQueue(p, sendqueue) \/ OnQueue(p, recvqueue)) =>
      nodes[p].id = coap_transaction_id(nodes[p].remote, nodes[p].pdu)

\* C10: when the iteration works on a CON response whose id is that of a
\* request an empty ACK has taken off the send queue before, an empty ACK
\* with the message id of the response is transmitted to its sender and
\* the callback is invoked with the PDU of that request, still allocated,
\* as its request argument.
C10_SeparateResponse ==
  [][(/\ Iterates
      /\ nodes[recvqueue].pdu.type = COAP_MESSAGE_CON
      /\ COAP_MESSAGE_IS_RESPONSE(nodes[recvqueue].pdu)
      /\ \E a \in answered : a.id = nodes[recvqueue].id) =>
       /\ \E i \in EventsOf(ev'.log, "tx") :
            /\ ev'.log[i].pdu.type = COAP_MESSAGE_ACK
            /\ ev'.log[i].pdu.code = 0
            /\ ev'.log[i].pdu.mid = nodes[recvqueue].pdu.mid
            /\ ev'.log[i].dst = nodes[recvqueue].remote
       /\ \E i \in EventsOf(ev'.log, "cb"), a \in answered :
            /\ a.id = nodes[recvqueue].id
            /\ ev'.log[i].req = PduRef(a.node)
            /\ ev'.log[i].live]_vars

\* the message at the head of the receive queue is a request that passes
\* the screening of the dispatcher: a method code 1..31 and, for CON and
\* NON, no unknown critical option
ScreenedRequest ==
  /\ Iterates
  /\ COAP_MESSAGE_IS_REQUEST(nodes[recvqueue].pdu)
  /\ nodes[recvqueue].pdu.type \in {COAP_MESSAGE_CON, COAP_MESSAGE_NON}
  /\ ~UnknownCritical(nodes[recvqueue].pdu)

\* what the table of handle_request prescribes for a request: to call the
\* handler (code 0), or the code of the reply to send
Prescribed(reg, pdu) ==
  LET wkc == pdu.code = COAP_REQUEST_GET /\ is_wkc(pdu.uri) IN
  IF pdu.uri \notin DOMAIN reg
  THEN [call |-> FALSE,
        code |-> IF wkc THEN COAP_RESPONSE_CODE(205)
                 ELSE IF pdu.code = COAP_REQUEST_GET
                 THEN COAP_RESPONSE_CODE(404)
                 ELSE COAP_RESPONSE_CODE(405)]
  ELSE IF pdu.code \in reg[pdu.uri] THEN [call |-> TRUE, code |-> 0]
  ELSE [call |-> FALSE,
        code |-> IF wkc THEN COAP_RESPONSE_CODE(205)
                 ELSE COAP_RESPONSE_CODE(405)]

\* C11: for a request that passes the screening, handle_request does what
\* the table prescribes and nothing else: either it invokes the handler
\* registered for the method code and transmits nothing, or it invokes
\* nothing and the one reply it hands to the socket (none only when the
\* reply could not be allocated) is the prescribed one, the well-known
\* reply for 2.05.  Nothing is ever called as a handler for a method code
\* that has no registered handler.
C11_RequestTable ==
  [][ScreenedRequest =>
       LET msg  == nodes[recvqueue].pdu
           want == Prescribed(resources, msg)
           tx   == EventsOf(ev'.log, "tx")
           hs   == EventsOf(ev'.log, "handler")
       IN /\ EventsOf(ev'.log, "wild_call") = {}
          /\ EventsOf(ev'.log, "cb") = {}
          /\ \A i \in hs : /\ ev'.log[i].key \in DOMAIN resources
                           /\ ev'.log[i].code \in resources[ev'.log[i].key]
          /\ IF want.call
             THEN /\ Cardinality(hs) = 1
                  /\ \A i \in hs : /\ ev'.log[i].key = msg.uri
                                   /\ ev'.log[i].code = msg.code
                                   /\ ev'.log[i].rcvd = recvqueue
                  /\ tx = {}
             ELSE /\ hs = {}
                  /\ Cardinality(tx) <= 1
                  /\ \A i \in tx :
                       /\ ev'.log[i].pdu.code = want.code
                       /\ ev'.log[i].dst = nodes[recvqueue].remote
                       /\ (want.code = COAP_RESPONSE_CODE(205)) <=>
                            (ev'.log[i].pdu.payload = "wkc")]_vars

\* a sequence without its element x
Without(s, x) == SelectSeq(s, LAMBDA y : y # x)

\* C12: coap_read returns -1 and leaves both queues as they are when
\* recvfrom fails, when the datagram is shorter than the header and when
\* its version is not 1.  Otherwise, unless an allocation fails, it returns
\* 0, leaves the send queue as it is and adds one new node to the receive
\* queue, the other nodes keeping their order: the node holds the PDU of
\* the datagram, its source address and the time of its arrival.
C12_ReadAccepts ==
  [][ev'.op = "read" =>
       LET dg == ev'.dg
           n  == ev'.node
           q  == Queue(nodes, recvqueue)
           qn == Queue(nodes', recvqueue')
       IN IF dg.len < 0 \/ dg.len < SizeofHdr
             \/ dg.pdu.version # COAP_DEFAULT_VERSION
          THEN /\ ev'.ret = -1
               /\ UNCHANGED <<nodes, sendqueue, recvqueue>>
          ELSE ev'.mem = "ok" =>
               /\ ev'.ret = 0
               /\ Queue(nodes', sendqueue') = Queue(nodes, sendqueue)
               /\ n \notin Ptrs(nodes)
               /\ Len(qn) = Len(q) + 1
               /\ InSeq(n, qn)
               /\ Without(qn, n) = q
               /\ nodes'[n].st = "live"
               /\ nodes'[n].pdu = dg.pdu
               /\ nodes'[n].remote = dg.src
               /\ nodes'[n].t = now
               /\ \A p \in Ptrs(nodes) :
                    [nodes'[p] EXCEPT !.next = 0] = [nodes[p] EXCEPT !.next = 0]]_vars

\* a datagram of exactly the size of the header, without options, has just
\* been accepted behind a node that was read earlier, while a request waits
\* on the send queue
C12_Witness ==
  /\ ev.op = "read"
  /\ ev.ret = 0
  /\ ev.dg.len = SizeofHdr
  /\ Options(ev.dg.pdu) = {}
  /\ sendqueue # NULL
  /\ Len(Queue(nodes, recvqueue)) = 2
  /\ Queue(nodes, recvqueue)[2] = ev.node

\* the positions of the send queue whose node has the id of the message at
\* the head of the receive queue
Matching == 
  LET q == Queue(nodes, sendqueue)
  IN {i \in 1..Len(q) : nodes[q[i]].id = nodes[recvqueue].id}

\* a sequence without its i-th element
Dropped(s, i) == SubSeq(s, 1, i - 1) \o SubSeq(s, i + 1, Len(s))

\* C13: when the iteration works on an ACK or an RST, the first node of the
\* send queue with the id of the message is detached, with its next link
\* cleared, and the other nodes, later ones with the same id among them,
\* stay queued in their order; when no node has the id, and for every CON
\* and NON message, the send queue stays as it is.  A node that is off the
\* send queue is never transmitted again and never comes back onto it.
C13_FirstMatchDetached ==
  /\ [][Iterates =>
          LET q  == Queue(nodes, sendqueue)
              qn == Queue(nodes', sendqueue')
          IN IF /\ nodes[recvqueue].pdu.type \in {COAP_MESSAGE_ACK, COAP_MESSAGE_RST}
                /\ Matching # {}
             THEN /\ qn = Dropped(q, Min(Matching))
                  /\ sent' = q[Min(Matching)]
                  /\ FirstMatch.node = q[Min(Matching)]
                  /\ FirstMatch.nodes[FirstMatch.node].next = NULL
                  /\ nodes'[q[Min(Matching)]].next = NULL
                  /\ \A i \in EventsOf(ev'.log, "cb") :
                       /\ ev'.log[i].sent = q[Min(Matching)]
                       /\ ev'.log[i].sq = qn
             ELSE qn = q]_vars
  /\ [][\A p \in SendNodes :
          ~OnQueue(p, sendqueue) =>
            /\ ~InSeq(p, Queue(nodes', sendqueue'))
            /\ nodes'[p].tx = nodes[p].tx \/ nodes'[p].tx = 0
            /\ \A i \in EventsOf(ev'.log, "tx") : ev'.log[i].of # p]_vars

\* an empty ACK has detached the first of two queued requests with its id,
\* and the second is still queued
C13_Witness ==
  /\ ev.op = "dispatch"
  /\ ev.msg.type = COAP_MESSAGE_ACK
  /\ sent # NULL
  /\ nodes[sent].st = "freed"
  /\ sendqueue # NULL
  /\ \E a \in answered : a.node = sent /\ a.id = nodes[sendqueue].id

\* the positions of option o in a list of options
OptionAt(opts, o) == {i \in 1..Len(opts) : opts[i][1] = o}

\* C14: an error response that coap_new_error_response has built is of
\* type ACK when the request is CON and of type NON for a request of any
\* other type; it has the code asked for and the message id of the request,
\* and when the request has a Token it carries that Token, once.
C14_ErrorResponseHeader ==
  (ev.op = "new_error_response" /\ ~ev.null) =>
    /\ ev.reply.type = IF ev.request.type = COAP_MESSAGE_CON
                       THEN COAP_MESSAGE_ACK ELSE COAP_MESSAGE_NON
    /\ ev.reply.code = ev.code
    /\ ev.reply.mid = ev.request.mid
    /\ ev.request.token # <<>> =>
         /\ Cardinality(OptionAt(ev.reply.opts, COAP_OPTION_TOKEN)) = 1
         /\ \A i \in OptionAt(ev.reply.opts, COAP_OPTION_TOKEN) :
              ev.reply.opts[i][2] = ev.request.token
    /\ ev.request.token = <<>> =>
         OptionAt(ev.reply.opts, COAP_OPTION_TOKEN) = {}

\* a 4.04 response of type NON with the Token of a NON request
C14_Witness ==
  /\ ev.op = "new_error_response"
  /\ ~ev.null
  /\ ev.request.type = COAP_MESSAGE_NON
  /\ ev.request.token = <<7>>
  /\ ev.code = COAP_RESPONSE_CODE(404)
  /\ ev.reply.type = COAP_MESSAGE_NON
  /\ ev.reply.token = <<7>>

\* the options of a request with the numbers in S, in ascending order of
\* their numbers, each with its value
Copied(request, S) ==
  LET os == Ascending(Options(request) \cap S)
  IN [i \in 1..Len(os) |-> <<os[i], OptValue(request, os[i])>>]

ContentTypeTextPlain ==
  <<COAP_OPTION_CONTENT_TYPE, <<COAP_MEDIATYPE_TEXT_PLAIN>>>>

\* C15: the options of an error response that coap_new_error_response has
\* built for a request and a filter opts are, in this order: Content-Type =
\* text/plain, then the Token of the request (when it has one) and the
\* options of the request that opts names, Content-Type excepted, in
\* ascending order of their numbers; no other option appears.
C15_ErrorResponseOptions ==
  (ev.op = "new_error_response" /\ ~ev.null) =>
    ev.reply.opts =
      <<ContentTypeTextPlain>>
      \o Copied(ev.request,
                (ev.opts \ {COAP_OPTION_CONTENT_TYPE}) \cup {COAP_OPTION_TOKEN})

\* a response whose options are Content-Type, then the Uri-Path, the Token
\* and the unknown critical option of the request
C15_Witness ==
  /\ ev.op = "new_error_response"
  /\ ~ev.null
  /\ Len(ev.reply.opts) = 4
  /\ ev.reply.opts[2][1] = COAP_OPTION_URI_PATH
  /\ ev.reply.opts[3] = <<COAP_OPTION_TOKEN, <<7>>>>
  /\ ev.reply.opts[4][1] = 13

\* C15 as stated: the options of the error response are the Token of the
\* request (when it has one), then the options of the request named in
\* opts, then Content-Type = text/plain, and no other.
C15_AsStated ==
  (ev.op = "new_error_response" /\ ~ev.null) =>
    ev.reply.opts =
      Copied(ev.request, {COAP_OPTION_TOKEN})
      \o Copied(ev.request, ev.opts \ {COAP_OPTION_TOKEN})
      \o <<ContentTypeTextPlain>>

\* C16: with nothing received and the timer driver calling coap_retransmit
\* on the head of the send queue as long as there is one, every node that
\* coap_send_confirmed has enqueued is eventually destroyed, once, and from
\* some moment on coap_can_exit is true for good, the send queue being
\* empty; coap_can_exit is true exactly when both queues are empty.
C16_TimerDrains ==
  /\ \A p \in 1..MaxSendL :
       [](p \in Ptrs(nodes) =>
            <>(/\ p \in Ptrs(nodes)
               /\ nodes[p].st = "freed"
               /\ nodes[p].frees = 1))
  /\ <>[](coap_can_exit /\ sendqueue = NULL)
  /\ [](coap_can_exit <=>
          (Queue(nodes, sendqueue) = <<>> /\ Queue(nodes, recvqueue) = <<>>))

\* every request was given up by the timer and coap_can_exit is true
C16_Witness ==
  /\ coap_can_exit
  /\ Len(nodes) = MaxSendL
  /\ \A p \in Ptrs(nodes) : nodes[p].by = "retransmit"
  /\ ntimer = MaxSendL * (COAP_DEFAULT_MAX_RETRANSMIT + 1)

C18_InitialTimeout ==
  (ev.op = "send_confirmed" /\ ev.node # NULL) =>
    LET b    == ev.r % 256
        base == COAP_DEFAULT_RESPONSE_TIMEOUT * COAP_TICKS_PER_SECOND
        tmo  == nodes[ev.node].timeout
    IN /\ b \in 0..255
       /\ tmo = base + (COAP_DEFAULT_RESPONSE_TIMEOUT \div 2)
                       * ((COAP_TICKS_PER_SECOND * b) \div 256)
       /\ base <= tmo
       /\ 2 * tmo < 3 * base
       /\ nodes[ev.node].t = now + tmo

\* a request sent, at a clock that has moved on, with the largest random
\* byte: its timeout is the largest there is
C18_Witness ==
  /\ ev.op = "send_confirmed"
  /\ ev.node # NULL
  /\ ev.r = 255
  /\ now > 0
  /\ nodes[ev.node].timeout = 3068
  /\ nodes[ev.node].t = now + 3068

\* C19: whenever an iteration invokes the response callback, its request
\* argument is the PDU of the node that the match of this very message has
\* detached from the send queue, or null; it is null when the message is
\* not an ACK or RST or no node of the send queue has its id.
C19_CallbackRequest ==
  [][Iterates =>
       \A i \in EventsOf(ev'.log, "cb") :
         IF /\ nodes[recvqueue].pdu.type \in {COAP_MESSAGE_ACK, COAP_MESSAGE_RST}
            /\ Matching # {}
         THEN \/ ev'.log[i].req = PduRef(Queue(nodes, sendqueue)[Min(Matching)])
              \/ ev'.log[i].req = <<"null", NULL>>
         ELSE ev'.log[i].req = <<"null", NULL>>]_vars

\* C20: no node is destroyed twice; an iteration of the loop of
\* coap_dispatch that runs to its end leaves the received node destroyed,
\* once, and with it the node that a match has detached from the send
\* queue; and the node whose PDU an iteration hands to the callback has
\* not been destroyed before.
C20_DestroyedOnce ==
  /\ \A p \in Ptrs(nodes) : nodes[p].frees <= 1
  /\ (ev.op = "dispatch" /\ dpc # "crashed") =>
       /\ nodes[ev.node].st = "freed"
       /\ nodes[ev.node].frees = 1
       /\ sent # NULL => (nodes[sent].st = "freed" /\ nodes[sent].frees = 1)
       /\ \A i \in EventsOf(ev.log, "cb") :
            ev.log[i].sent = NULL \/ ev.log[i].live

\* the transmissions of replies in a log: PDUs the engine built itself,
\* which belong to no queue node
ReplyTx(log) == {i \in EventsOf(log, "tx") : log[i].of = NULL}

\* C21: every reply an iteration of coap_dispatch builds and hands to
\* coap_send is released exactly once, whether sendto succeeds or fails:
\* there are as many releases as replies, each reply is followed at once
\* by its release, and no release is of a PDU released already.
C21_ReplyReleasedOnce ==
  [][Iterates =>
       LET log == ev'.log
           fr  == EventsOf(log, "pdu_free")
       IN /\ Cardinality(fr) = Cardinality(ReplyTx(log))
          /\ \A i \in ReplyTx(log) : i + 1 \in fr
          /\ \A i \in fr : ~log[i].again]_vars

\* C22: a node that coap_send_confirmed has put on the send queue at clock
\* t0 with timeout T is scheduled for t0 + T; after the k-th call of
\* coap_retransmit on it, k = 1..COAP_DEFAULT_MAX_RETRANSMIT, for
\* t0 + (2^(k+1) - 1) * T, which is 3T, 7T, 15T and 31T after t0; and no
\* step changes the timeout of a node that stays allocated.
C22_Deadlines ==
  [][\A p \in Ptrs(nodes') :
       (nodes'[p].origin = "send" /\ nodes'[p].st = "live") =>
         LET k == nodes'[p].tx - 1
         IN /\ k \in 0..COAP_DEFAULT_MAX_RETRANSMIT
            /\ nodes'[p].t = nodes'[p].t0 + (Pow2(k + 1) - 1) * nodes'[p].timeout
            /\ (ev'.op = "send_confirmed" /\ ev'.node = p) =>
                 (k = 0 /\ nodes'[p].t0 = now)
            /\ (ev'.op = "retransmit" /\ ev'.node = p) =>
                 (k = nodes[p].tx /\ nodes'[p].t0 = nodes[p].t0)
            /\ (p \in Ptrs(nodes) /\ nodes[p].st = "live") =>
                 nodes'[p].timeout = nodes[p].timeout]_vars

\* one node has been retransmitted COAP_DEFAULT_MAX_RETRANSMIT times and is
\* due 31 timeouts after it was sent; another, sent at a later clock, has
\* been retransmitted once and is due 3 timeouts after it was sent
C22_Witness ==
  \E p, q \in SendNodes :
    /\ nodes[p].st = "live" /\ nodes[q].st = "live"
    /\ nodes[p].tx = 1 + COAP_DEFAULT_MAX_RETRANSMIT
    /\ nodes[p].t = nodes[p].t0 + 31 * nodes[p].timeout
    /\ nodes[q].t0 > 0
    /\ nodes[q].tx = 2
    /\ nodes[q].t = nodes[q].t0 + 3 * nodes[q].timeout
    /\ nodes[q].timeout # nodes[p].timeout

\* how often the node p occurs in the sequence s
Occurrences(p, s) == Cardinality({i \in 1..Len(s) : s[i] = p})

\* C23: whatever the application, the network and a timer driver that
\* passes coap_retransmit the head of the send queue, popped or peeked,
\* have done so far: every allocated node occurs at most once in the send
\* queue and the receive queue taken together, every node on a queue is
\* allocated, and following next from either head ends in null after at
\* most as many steps as there are nodes.
C23_QueuesAcyclic ==
  LET sq == Queue(nodes, sendqueue)
      rq == Queue(nodes, recvqueue)
  IN /\ \A p \in Ptrs(nodes) :
          nodes[p].st = "live" => Occurrences(p, sq) + Occurrences(p, rq) <= 1
     /\ \A p \in Ptrs(nodes) :
          nodes[p].st = "freed" => Occurrences(p, sq) + Occurrences(p, rq) = 0
     /\ Len(sq) <= Len(nodes)
     /\ Len(rq) <= Len(nodes)

\* the nodes coap_read has allocated that are on the receive queue, in the
\* order of the queue.  coap_read allocates a node per accepted datagram
\* and the heap hands out pointers in ascending order, so of two such
\* nodes the one with the smaller pointer was read first
Pending == Queue(nodes, recvqueue)

\* C24: the receive queue holds the messages in the order coap_read
\* accepted them, also those of one clock tick, and every iteration of the
\* loop of coap_dispatch works on the first of them and leaves the others
\* queued in that order: no message is handled before one read earlier.
C24_ArrivalOrder ==
  [][/\ \A i, j \in 1..Len(Pending') : i < j => Pending'[i] < Pending'[j]
     /\ Iterates =>
          /\ ev'.op = "dispatch"
          /\ ev'.node = Pending[1]
          /\ \A i \in 2..Len(Pending) : ev'.node < Pending[i]
          /\ Pending' = Tail(Pending)]_vars

\* an iteration has handled the message read first while two messages read
\* after it, both in one clock tick, wait on the receive queue
C24_Witness ==
  /\ ev.op = "dispatch"
  /\ dpc = "loop"
  /\ Len(Pending) = 2
  /\ ev.node < Pending[1]
  /\ Pending[1] < Pending[2]
  /\ nodes[Pending[1]].t = nodes[Pending[2]].t
  /\ nodes[Pending[1]].pdu # nodes[Pending[2]].pdu

====
